---- MODULE Spec2Model ----
(***************************************************************************)
(* Booking subsystem of drivent-api: the booking service (getBooking,      *)
(* postBooking, updateBooking) over the booking repository.                *)
(*                                                                         *)
(* The booking table is the state.  Rooms are read-only for this           *)
(* subsystem and keep their capacity for a whole behaviour.  Enrollments   *)
(* and tickets live in repositories outside this subsystem: what their     *)
(* lookups return is an input of each postBooking call.                    *)
(* A nullable query result is a set with at most one element ({} = null).  *)
(* A Room is [id, capacity]: its name and hotelId are never read here.     *)
(* Every service call is one atomic step of Spec.                          *)
(***************************************************************************)
EXTENDS Integers, FiniteSets, Sequences, TLC

\* ------------------------------------------------------------------ bounds
MaxUser == 2
MaxRoom == 2
MaxCapacity == 2
MaxBookings == 3
MaxInFlight == 2

Users == 1..MaxUser
\* ids of the rooms that exist
RoomIds == 1..MaxRoom
\* roomId values a request may carry: MaxRoom + 1 references no room
RoomIdInputs == 1..(MaxRoom + 1)
\* bookingId values a request may carry
BookingIdInputs == 1..MaxBookings
\* SpecConc: the requests that may be in flight together
Slots == 1..MaxInFlight

\* the hotel of a behaviour: room r sleeps r guests, at most MaxCapacity
\* (the rooms the tests build have capacity 1, 2 and 4)
RoomCapacity(r) == IF r <= MaxCapacity THEN r ELSE MaxCapacity

\* ------------------------------------------------------------------- state
VARIABLES
  bookings,   \* the Booking table: a set of [id, userId, roomId]
  nextId,     \* the autoincrement sequence of Booking.id
  rooms,      \* the Room table: roomId -> [id, capacity]
  last,       \* the last service call: its arguments, lookups, outcome
  reqs,       \* SpecConc only: slot -> the request in flight in that slot
  http        \* SpecHttp only: the last HTTP exchange at the router

vars == <<bookings, nextId, rooms, last, reqs, http>>

\* --------------------------------------------------- external lookups (inputs)
\* enrollmentRepository.findWithAddressByUserId(userId): null or the enrollment
EnrollmentResults(userId) == {{}, {[id |-> userId]}}

\* TicketStatus of the ticket, and the two flags of its TicketType
Tickets == [status : {"RESERVED", "PAID"}, isRemote : BOOLEAN, includesHotel : BOOLEAN]

\* ticketRepository.findTicketByEnrollmentId(enrollment.id): null or the ticket;
\* it is only called when the enrollment exists
TicketResults(enrollment) ==
  IF enrollment = {} THEN {{}} ELSE {{}} \cup {{t} : t \in Tickets}

\* roomsRepository.findRoomById(roomId): null or the room
findRoomById(roomId) ==
  IF roomId \in DOMAIN rooms THEN {rooms[roomId]} ELSE {}

\* ------------------------------------------------------- booking repository
\* mutant: the where clause matches the booking id instead of the user id
findBookingByUserId_byId(bs, userId) ==
  {[id |-> b.id, Room |-> rooms[b.roomId]] : b \in {x \in bs : x.id = userId}}

\* findFirst({where: {userId}, select: {id, Room}}): the candidates findFirst
\* may return (no orderBy: any matching row); {} when it returns null
findBookingByUserId(bs, userId) ==
  {[id |-> b.id, Room |-> rooms[b.roomId]] : b \in {x \in bs : x.userId = userId}}

\* findMany({where: {roomId}})
findBookingsByRoomId(bs, roomId) == {b \in bs : b.roomId = roomId}

\* findFirst({where: {id: bookingId}}); id is the primary key
findBookingById(bs, bookingId) == {b \in bs : b.id = bookingId}

\* mutant: a unique constraint on userId, the insert of a second booking of a
\* user is dropped
createBooking_uniqueUser(bs, id, userId, roomId) ==
  IF \E b \in bs : b.userId = userId
    THEN bs
    ELSE bs \cup {[id |-> id, userId |-> userId, roomId |-> roomId]}

\* mutant: the two data fields are swapped
createBooking_swapped(bs, id, userId, roomId) ==
  bs \cup {[id |-> id, userId |-> roomId, roomId |-> userId]}

\* mutant: an upsert keyed on the room, which replaces the room's bookings
createBooking_upsertRoom(bs, id, userId, roomId) ==
  {b \in bs : b.roomId # roomId} \cup {[id |-> id, userId |-> userId, roomId |-> roomId]}

\* create({data: {userId, roomId}, select: {id}}): the table afterwards
createBooking(bs, id, userId, roomId) ==
  bs \cup {[id |-> id, userId |-> userId, roomId |-> roomId]}

\* mutant: the data of the update also overwrites userId
bookingRepository_updateBooking_overwritesUser(bs, bookingId, roomId) ==
  {IF b.id = bookingId THEN [b EXCEPT !.roomId = roomId, !.userId = roomId] ELSE b : b \in bs}

\* mutant: a create in place of the update, the old row stays
bookingRepository_updateBooking_keepsOldRow(bs, bookingId, roomId) ==
  bs \cup {[b EXCEPT !.roomId = roomId] : b \in {x \in bs : x.id = bookingId}}

\* mutant: the where clause is missing, every row gets the new roomId
bookingRepository_updateBooking_allRows(bs, bookingId, roomId) ==
  {[b EXCEPT !.roomId = roomId] : b \in bs}

\* update({data: {roomId}, where: {id: bookingId}, select: {id}}): the table afterwards
bookingRepository_updateBooking(bs, bookingId, roomId) ==
  {IF b.id = bookingId THEN [b EXCEPT !.roomId = roomId] ELSE b : b \in bs}

\* ---------------------------------------------------------- booking service
\* mutant: the isRemote disjunct is missing
TicketAllowsBooking_ignoresRemote(ticket) ==
  /\ ticket # {}
  /\ \A t \in ticket : t.status # "RESERVED" /\ t.includesHotel

\* the ticket condition of postBooking, negated: the ticket lets the user book
TicketAllowsBooking(ticket) ==
  /\ ticket # {}
  /\ \A t \in ticket : t.status # "RESERVED" /\ ~t.isRemote /\ t.includesHotel

\* mutant: > in place of >=
RoomIsFull_offByOne(bs, roomId) ==
  \E room \in findRoomById(roomId) :
    Cardinality(findBookingsByRoomId(bs, roomId)) > room.capacity

\* roomWithBookings.length >= room.capacity
RoomIsFull(bs, roomId) ==
  \E room \in findRoomById(roomId) :
    Cardinality(findBookingsByRoomId(bs, roomId)) >= room.capacity

\* mutant: the existing-booking check is missing
postBookingOutcome_noDuplicateCheck(bs, userId, roomId, enrollment, ticket) ==
  IF enrollment = {} THEN "Forbidden"
  ELSE IF ~TicketAllowsBooking(ticket) THEN "Forbidden"
  ELSE IF findRoomById(roomId) = {} THEN "NotFound"
  ELSE IF RoomIsFull(bs, roomId) THEN "Forbidden"
  ELSE "OK"

\* mutant: the existing-booking check runs before the room lookup
postBookingOutcome_duplicateBeforeRoom(bs, userId, roomId, enrollment, ticket) ==
  IF enrollment = {} THEN "Forbidden"
  ELSE IF ~TicketAllowsBooking(ticket) THEN "Forbidden"
  ELSE IF findBookingByUserId(bs, userId) # {} THEN "Forbidden"
  ELSE IF findRoomById(roomId) = {} THEN "NotFound"
  ELSE IF RoomIsFull(bs, roomId) THEN "Forbidden"
  ELSE "OK"

\* mutant: a missing room throws forbiddenError
postBookingOutcome_missingRoomForbidden(bs, userId, roomId, enrollment, ticket) ==
  IF enrollment = {} THEN "Forbidden"
  ELSE IF ~TicketAllowsBooking(ticket) THEN "Forbidden"
  ELSE IF findRoomById(roomId) = {} THEN "Forbidden"
  ELSE IF findBookingByUserId(bs, userId) # {} THEN "Forbidden"
  ELSE IF RoomIsFull(bs, roomId) THEN "Forbidden"
  ELSE "OK"

\* the outcome of postBooking: the first throw its checks reach, else "OK"
postBookingOutcome(bs, userId, roomId, enrollment, ticket) ==
  IF enrollment = {} THEN "Forbidden"
  ELSE IF ~TicketAllowsBooking(ticket) THEN "Forbidden"
  ELSE IF findRoomById(roomId) = {} THEN "NotFound"
  ELSE IF findBookingByUserId(bs, userId) # {} THEN "Forbidden"
  ELSE IF RoomIsFull(bs, roomId) THEN "Forbidden"
  ELSE "OK"

\* mutant: the caller's own booking is left out of the count of the target room
updateBookingOutcome_selfMoveExempt(bs, userId, roomId, bookingId) ==
  IF findBookingById(bs, bookingId) = {} THEN "NotFound"
  ELSE IF \E booking \in findBookingById(bs, bookingId) : booking.userId # userId
    THEN "Forbidden"
  ELSE IF findRoomById(roomId) = {} THEN "NotFound"
  ELSE IF RoomIsFull({b \in bs : b.id # bookingId}, roomId) THEN "Forbidden"
  ELSE "OK"

\* mutant: the capacity check is missing
updateBookingOutcome_noCapacityCheck(bs, userId, roomId, bookingId) ==
  IF findBookingById(bs, bookingId) = {} THEN "NotFound"
  ELSE IF \E booking \in findBookingById(bs, bookingId) : booking.userId # userId
    THEN "Forbidden"
  ELSE IF findRoomById(roomId) = {} THEN "NotFound"
  ELSE "OK"

\* mutant: the room lookup runs before the ownership check
updateBookingOutcome_roomBeforeOwner(bs, userId, roomId, bookingId) ==
  IF findBookingById(bs, bookingId) = {} THEN "NotFound"
  ELSE IF findRoomById(roomId) = {} THEN "NotFound"
  ELSE IF \E booking \in findBookingById(bs, bookingId) : booking.userId # userId
    THEN "Forbidden"
  ELSE IF RoomIsFull(bs, roomId) THEN "Forbidden"
  ELSE "OK"

\* the outcome of updateBooking: the first throw its checks reach, else "OK"
updateBookingOutcome(bs, userId, roomId, bookingId) ==
  IF findBookingById(bs, bookingId) = {} THEN "NotFound"
  ELSE IF \E booking \in findBookingById(bs, bookingId) : booking.userId # userId
    THEN "Forbidden"
  ELSE IF findRoomById(roomId) = {} THEN "NotFound"
  ELSE IF RoomIsFull(bs, roomId) THEN "Forbidden"
  ELSE "OK"

\* the record of a call: `pre` is the Booking table the call started from;
\* `justCreated` is only set by getBooking, to the booking created by the call
\* right before it (when that call was a successful postBooking)
Call(op, userId, roomId, bookingId, enrollment, ticket, status, id, Room, pre) ==
  [op |-> op, userId |-> userId, roomId |-> roomId, bookingId |-> bookingId,
   enrollment |-> enrollment, ticket |-> ticket, status |-> status,
   id |-> id, Room |-> Room, pre |-> pre, justCreated |-> {}]

\* the booking a successful postBooking has just created, when `call` is one
JustCreated(call) ==
  IF call.op = "postBooking" /\ call.status = "OK"
    THEN {[id |-> call.id, userId |-> call.userId, roomId |-> call.roomId]}
    ELSE {}

\* ------------------------------------------------------ request boundary
\* a value as it arrives in a request body or path: absent, text that is no
\* number, a number with a fraction, or an integer
Raw(kind, value) == [kind |-> kind, value |-> value]

\* roomId values of a request body; bookingId values of a path (never absent)
RawRoomIds ==
  {Raw("missing", 0), Raw("text", 0), Raw("fraction", 0)}
    \cup {Raw("integer", v) : v \in (-1)..(MaxRoom + 1)}
RawBookingIds ==
  {Raw("text", 0)} \cup {Raw("integer", v) : v \in 0..MaxBookings}

\* authenticateToken: the sessions a request may come with, {} = no valid one
Sessions == {{}} \cup {{u} : u \in Users}

\* mutant: min(0) in place of positive()
bookingBodySchema_allowsZero(roomId) == roomId.kind = "integer" /\ roomId.value >= 0

\* Joi.number().integer().positive().required()
bookingBodySchema(roomId) == roomId.kind = "integer" /\ roomId.value > 0

\* the params schema of PUT /:bookingId: a positive integer
bookingParamsSchema(bookingId) == bookingId.kind = "integer" /\ bookingId.value > 0

\* the status code the controllers answer an outcome of the service with
httpStatus(status) ==
  CASE status = "OK" -> 200
    [] status = "NotFound" -> 404
    [] status = "Forbidden" -> 403

\* an HTTP exchange: stage is the stage of the route that answered it
Exchange(method, session, roomId, bookingId, stage, status, code) ==
  [method |-> method, session |-> session, roomId |-> roomId, bookingId |-> bookingId,
   stage |-> stage, status |-> status, code |-> code]

NoExchange == Exchange("none", {}, Raw("missing", 0), Raw("text", 0), "none", "none", 0)

\* a request in flight: pc is the await it stands before, status its outcome
Req(pc, op, userId, roomId, bookingId, status, id) ==
  [pc |-> pc, op |-> op, userId |-> userId, roomId |-> roomId,
   bookingId |-> bookingId, status |-> status, id |-> id]

\* a slot without request
Idle == Req("idle", "none", 0, 0, 0, "none", 0)

\* a request that has returned or thrown: its outcome and the id it returned
Done(op, status, id) == Req("done", op, 0, 0, 0, status, id)

\* ------------------------------------------------------------------ actions
Init ==
  /\ bookings = {}
  /\ nextId = 1
  /\ rooms = [r \in RoomIds |-> [id |-> r, capacity |-> RoomCapacity(r)]]
  /\ last = Call("none", 0, 0, 0, {}, {}, "none", 0, {}, {})
  /\ reqs = [q \in Slots |-> Idle]
  /\ http = NoExchange

\* mutant: the null check is missing, a user without booking gets a result
getBooking_noNullCheck ==
  \E userId \in Users :
    LET booking == findBookingByUserId(bookings, userId) IN
    /\ IF booking = {}
         THEN last' = [Call("getBooking", userId, 0, 0, {}, {}, "OK", 0, {}, bookings)
                         EXCEPT !.justCreated = JustCreated(last)]
         ELSE \E b \in booking :
                last' = [Call("getBooking", userId, 0, 0, {}, {}, "OK", b.id, {b.Room}, bookings)
                           EXCEPT !.justCreated = JustCreated(last)]
    /\ UNCHANGED <<bookings, nextId, rooms, reqs, http>>

getBooking ==
  \E userId \in Users :
    LET booking == findBookingByUserId(bookings, userId) IN
    /\ IF booking = {}
         THEN last' = [Call("getBooking", userId, 0, 0, {}, {}, "NotFound", 0, {}, bookings)
                         EXCEPT !.justCreated = JustCreated(last)]
         ELSE \E b \in booking :
                last' = [Call("getBooking", userId, 0, 0, {}, {}, "OK", b.id, {b.Room}, bookings)
                           EXCEPT !.justCreated = JustCreated(last)]
    /\ UNCHANGED <<bookings, nextId, rooms, reqs, http>>

\* mutant: the booking is created before the existing-booking and capacity
\* checks, which then throw
postBooking_writesBeforeChecks ==
  \E userId \in Users, roomId \in RoomIdInputs :
    \E enrollment \in EnrollmentResults(userId) :
      \E ticket \in TicketResults(enrollment) :
        LET outcome == postBookingOutcome(bookings, userId, roomId, enrollment, ticket)
            written == enrollment # {} /\ TicketAllowsBooking(ticket)
                         /\ findRoomById(roomId) # {}
        IN
        /\ nextId <= MaxBookings
        /\ IF written
             THEN /\ bookings' = createBooking(bookings, nextId, userId, roomId)
                  /\ nextId' = nextId + 1
             ELSE UNCHANGED <<bookings, nextId>>
        /\ last' = Call("postBooking", userId, roomId, 0, enrollment, ticket,
                        outcome, IF outcome = "OK" THEN nextId ELSE 0, {}, bookings)
        /\ UNCHANGED <<rooms, reqs, http>>

postBooking ==
  \E userId \in Users, roomId \in RoomIdInputs :
    \E enrollment \in EnrollmentResults(userId) :
      \E ticket \in TicketResults(enrollment) :
        LET outcome == postBookingOutcome(bookings, userId, roomId, enrollment, ticket) IN
        IF outcome = "OK"
          THEN /\ nextId <= MaxBookings
               /\ bookings' = createBooking(bookings, nextId, userId, roomId)
               /\ nextId' = nextId + 1
               /\ last' = Call("postBooking", userId, roomId, 0, enrollment, ticket,
                               "OK", nextId, {}, bookings)
               /\ UNCHANGED <<rooms, reqs, http>>
          ELSE /\ last' = Call("postBooking", userId, roomId, 0, enrollment, ticket,
                               outcome, 0, {}, bookings)
               /\ UNCHANGED <<bookings, nextId, rooms, reqs, http>>

\* mutant: updateBooking repeats the enrollment and ticket checks of postBooking
updateBooking_checksTicket ==
  \E userId \in Users, roomId \in RoomIdInputs, bookingId \in BookingIdInputs :
    \E enrollment \in EnrollmentResults(userId) :
      \E ticket \in TicketResults(enrollment) :
        LET outcome == IF enrollment = {} \/ ~TicketAllowsBooking(ticket)
                         THEN "Forbidden"
                         ELSE updateBookingOutcome(bookings, userId, roomId, bookingId) IN
        IF outcome = "OK"
          THEN /\ bookings' = bookingRepository_updateBooking(bookings, bookingId, roomId)
               /\ last' = Call("updateBooking", userId, roomId, bookingId, enrollment, ticket,
                               "OK", bookingId, {}, bookings)
               /\ UNCHANGED <<nextId, rooms, reqs, http>>
          ELSE /\ last' = Call("updateBooking", userId, roomId, bookingId, {}, {},
                               outcome, 0, {}, bookings)
               /\ UNCHANGED <<bookings, nextId, rooms, reqs, http>>

\* updateBooking never calls the enrollment or ticket repository.  For a call
\* that succeeds, `last` records what those repositories held for the caller
\* at that time (any of their possible results); nothing of it is read.
updateBooking ==
  \E userId \in Users, roomId \in RoomIdInputs, bookingId \in BookingIdInputs :
    LET outcome == updateBookingOutcome(bookings, userId, roomId, bookingId) IN
    IF outcome = "OK"
      THEN \E enrollment \in EnrollmentResults(userId) :
             \E ticket \in TicketResults(enrollment) :
               /\ bookings' = bookingRepository_updateBooking(bookings, bookingId, roomId)
               /\ last' = Call("updateBooking", userId, roomId, bookingId, enrollment, ticket,
                               "OK", bookingId, {}, bookings)
               /\ UNCHANGED <<nextId, rooms, reqs, http>>
      ELSE /\ last' = Call("updateBooking", userId, roomId, bookingId, {}, {},
                           outcome, 0, {}, bookings)
           /\ UNCHANGED <<bookings, nextId, rooms, reqs, http>>

Next == getBooking \/ postBooking \/ updateBooking

Spec == Init /\ [][Next]_vars

\* ------------------------------------------- interleaved requests (SpecConc)
\* Each await of a service function is a step; requests in different slots
\* interleave between steps.  The lookups of enrollment, ticket and room read
\* nothing this subsystem writes, so they are taken together with the step
\* that precedes the next read of the Booking table.

\* the Booking table after every user has booked the last room, when it
\* sleeps them all
FullHouse ==
  IF MaxUser <= RoomCapacity(MaxRoom)
    THEN {{[id |-> u, userId |-> u, roomId |-> MaxRoom] : u \in Users}}
    ELSE {}

\* the Booking tables a sequence of completed calls leaves: empty, one
\* booking, or the full house
SeedTables ==
  {{}} \cup {{[id |-> 1, userId |-> u, roomId |-> r]} : u \in Users, r \in RoomIds}
       \cup FullHouse

InitConc ==
  /\ bookings \in SeedTables
  /\ nextId = Cardinality(bookings) + 1
  /\ rooms = [r \in RoomIds |-> [id |-> r, capacity |-> RoomCapacity(r)]]
  /\ last = Call("none", 0, 0, 0, {}, {}, "none", 0, {}, {})
  /\ reqs = [q \in Slots |-> Idle]
  /\ http = NoExchange

\* the creates in flight that have not written yet
PendingCreates ==
  Cardinality({q \in Slots : reqs[q].op = "postBooking" /\ reqs[q].pc # "done"})

\* getBooking, lines 9-12: one read
getBooking_request ==
  \E q \in Slots, userId \in Users :
    /\ reqs[q].pc = "idle"
    /\ LET booking == findBookingByUserId(bookings, userId) IN
         IF booking = {}
           THEN reqs' = [reqs EXCEPT ![q] = Done("getBooking", "NotFound", 0)]
           ELSE \E b \in booking :
                  reqs' = [reqs EXCEPT ![q] = Done("getBooking", "OK", b.id)]
    /\ UNCHANGED <<bookings, nextId, rooms, last, http>>

\* postBooking, lines 16-25: enrollment, ticket and room lookups
postBooking_lookups ==
  \E q \in Slots, userId \in Users, roomId \in RoomIdInputs :
    \E enrollment \in EnrollmentResults(userId) :
      \E ticket \in TicketResults(enrollment) :
        /\ reqs[q].pc = "idle"
        /\ nextId + PendingCreates <= MaxBookings
        /\ reqs' = [reqs EXCEPT ![q] =
             IF enrollment = {} THEN Done("postBooking", "Forbidden", 0)
             ELSE IF ~TicketAllowsBooking(ticket) THEN Done("postBooking", "Forbidden", 0)
             ELSE IF findRoomById(roomId) = {} THEN Done("postBooking", "NotFound", 0)
             ELSE Req("existing", "postBooking", userId, roomId, 0, "none", 0)]
        /\ UNCHANGED <<bookings, nextId, rooms, last, http>>

\* mutant: a create whose user holds a booking waits for it to go away
postBooking_existing_waits ==
  \E q \in Slots :
    /\ reqs[q].pc = "existing"
    /\ reqs' = [reqs EXCEPT ![q] =
         IF findBookingByUserId(bookings, reqs[q].userId) # {}
           THEN reqs[q]
           ELSE [reqs[q] EXCEPT !.pc = "count"]]
    /\ UNCHANGED <<bookings, nextId, rooms, last, http>>

\* postBooking, lines 27-28: the read of the user's booking
postBooking_existing ==
  \E q \in Slots :
    /\ reqs[q].pc = "existing"
    /\ reqs' = [reqs EXCEPT ![q] =
         IF findBookingByUserId(bookings, reqs[q].userId) # {}
           THEN Done("postBooking", "Forbidden", 0)
           ELSE [reqs[q] EXCEPT !.pc = "count"]]
    /\ UNCHANGED <<bookings, nextId, rooms, last, http>>

\* postBooking, lines 30-31: the read of the room's bookings
postBooking_count ==
  \E q \in Slots :
    /\ reqs[q].pc = "count" /\ reqs[q].op = "postBooking"
    /\ reqs' = [reqs EXCEPT ![q] =
         IF RoomIsFull(bookings, reqs[q].roomId)
           THEN Done("postBooking", "Forbidden", 0)
           ELSE [reqs[q] EXCEPT !.pc = "write"]]
    /\ UNCHANGED <<bookings, nextId, rooms, last, http>>

\* mutant: the write is an insert guarded by the room's count
postBooking_write_ifRoomFree ==
  \E q \in Slots :
    /\ reqs[q].pc = "write" /\ reqs[q].op = "postBooking"
    /\ IF RoomIsFull(bookings, reqs[q].roomId)
         THEN /\ reqs' = [reqs EXCEPT ![q] = Done("postBooking", "Forbidden", 0)]
              /\ UNCHANGED <<bookings, nextId>>
         ELSE /\ bookings' = createBooking(bookings, nextId, reqs[q].userId, reqs[q].roomId)
              /\ nextId' = nextId + 1
              /\ reqs' = [reqs EXCEPT ![q] = Done("postBooking", "OK", nextId)]
    /\ UNCHANGED <<rooms, last, http>>

\* postBooking, lines 33-34: the write
postBooking_write ==
  \E q \in Slots :
    /\ reqs[q].pc = "write" /\ reqs[q].op = "postBooking"
    /\ bookings' = createBooking(bookings, nextId, reqs[q].userId, reqs[q].roomId)
    /\ nextId' = nextId + 1
    /\ reqs' = [reqs EXCEPT ![q] = Done("postBooking", "OK", nextId)]
    /\ UNCHANGED <<rooms, last, http>>

\* updateBooking, lines 38-44: the read of the booking, the ownership check
\* and the room lookup
updateBooking_lookups ==
  \E q \in Slots, userId \in Users, roomId \in RoomIdInputs, bookingId \in BookingIdInputs :
    /\ reqs[q].pc = "idle"
    /\ reqs' = [reqs EXCEPT ![q] =
         IF findBookingById(bookings, bookingId) = {}
           THEN Done("updateBooking", "NotFound", 0)
         ELSE IF \E booking \in findBookingById(bookings, bookingId) : booking.userId # userId
           THEN Done("updateBooking", "Forbidden", 0)
         ELSE IF findRoomById(roomId) = {} THEN Done("updateBooking", "NotFound", 0)
         ELSE Req("count", "updateBooking", userId, roomId, bookingId, "none", 0)]
    /\ UNCHANGED <<bookings, nextId, rooms, last, http>>

\* updateBooking, lines 46-47: the read of the room's bookings
updateBooking_count ==
  \E q \in Slots :
    /\ reqs[q].pc = "count" /\ reqs[q].op = "updateBooking"
    /\ reqs' = [reqs EXCEPT ![q] =
         IF RoomIsFull(bookings, reqs[q].roomId)
           THEN Done("updateBooking", "Forbidden", 0)
           ELSE [reqs[q] EXCEPT !.pc = "write"]]
    /\ UNCHANGED <<bookings, nextId, rooms, last, http>>

\* mutant: the write is an update guarded by the room's count
updateBooking_write_ifRoomFree ==
  \E q \in Slots :
    /\ reqs[q].pc = "write" /\ reqs[q].op = "updateBooking"
    /\ IF RoomIsFull(bookings, reqs[q].roomId)
         THEN /\ reqs' = [reqs EXCEPT ![q] = Done("updateBooking", "Forbidden", 0)]
              /\ UNCHANGED bookings
         ELSE /\ bookings' = bookingRepository_updateBooking(bookings, reqs[q].bookingId,
                                                            reqs[q].roomId)
              /\ reqs' = [reqs EXCEPT ![q] = Done("updateBooking", "OK", reqs[q].bookingId)]
    /\ UNCHANGED <<nextId, rooms, last, http>>

\* updateBooking, lines 49-50: the write
updateBooking_write ==
  \E q \in Slots :
    /\ reqs[q].pc = "write" /\ reqs[q].op = "updateBooking"
    /\ bookings' = bookingRepository_updateBooking(bookings, reqs[q].bookingId, reqs[q].roomId)
    /\ reqs' = [reqs EXCEPT ![q] = Done("updateBooking", "OK", reqs[q].bookingId)]
    /\ UNCHANGED <<nextId, rooms, last, http>>

NextConc ==
  \/ getBooking_request
  \/ postBooking_lookups \/ postBooking_existing \/ postBooking_count \/ postBooking_write
  \/ updateBooking_lookups \/ updateBooking_count \/ updateBooking_write

SpecConc == InitConc /\ [][NextConc]_vars

\* the steps that resume a request after a query of the store has returned
Continue ==
  \/ postBooking_existing \/ postBooking_count \/ postBooking_write
  \/ updateBooking_count \/ updateBooking_write

\* SpecConc where every query of the store returns: a request that can resume
\* does resume
SpecConcFair == InitConc /\ [][NextConc]_vars /\ WF_vars(Continue)

\* ------------------------------------------------- HTTP routes (SpecHttp)
\* Each route runs authenticateToken, then its validations, then the
\* controller, which calls the service as one atomic call.

\* GET /booking
http_getBooking ==
  \E session \in Sessions :
    /\ IF session = {}
         THEN http' = Exchange("GET", session, Raw("missing", 0), Raw("text", 0),
                               "auth", "none", 401)
         ELSE \E userId \in session :
                LET status == IF findBookingByUserId(bookings, userId) = {}
                                THEN "NotFound" ELSE "OK" IN
                http' = Exchange("GET", session, Raw("missing", 0), Raw("text", 0),
                                 "policy", status, httpStatus(status))
    /\ UNCHANGED <<bookings, nextId, rooms, last, reqs>>

\* POST /booking
http_postBooking ==
  \E session \in Sessions, roomId \in RawRoomIds :
    IF session = {}
      THEN /\ http' = Exchange("POST", session, roomId, Raw("text", 0), "auth", "none", 401)
           /\ UNCHANGED <<bookings, nextId, rooms, last, reqs>>
    ELSE IF ~bookingBodySchema(roomId)
      THEN /\ http' = Exchange("POST", session, roomId, Raw("text", 0),
                               "validation", "none", 400)
           /\ UNCHANGED <<bookings, nextId, rooms, last, reqs>>
    ELSE \E userId \in session :
           \E enrollment \in EnrollmentResults(userId) :
             \E ticket \in TicketResults(enrollment) :
               LET status == postBookingOutcome(bookings, userId, roomId.value,
                                                enrollment, ticket) IN
               /\ http' = Exchange("POST", session, roomId, Raw("text", 0),
                                   "policy", status, httpStatus(status))
               /\ IF status = "OK"
                    THEN /\ nextId <= MaxBookings
                         /\ bookings' = createBooking(bookings, nextId, userId, roomId.value)
                         /\ nextId' = nextId + 1
                    ELSE UNCHANGED <<bookings, nextId>>
               /\ UNCHANGED <<rooms, last, reqs>>

\* PUT /booking/:bookingId
http_putBooking ==
  \E session \in Sessions, roomId \in RawRoomIds, bookingId \in RawBookingIds :
    IF session = {}
      THEN /\ http' = Exchange("PUT", session, roomId, bookingId, "auth", "none", 401)
           /\ UNCHANGED <<bookings, nextId, rooms, last, reqs>>
    ELSE IF ~bookingParamsSchema(bookingId) \/ ~bookingBodySchema(roomId)
      THEN /\ http' = Exchange("PUT", session, roomId, bookingId, "validation", "none", 400)
           /\ UNCHANGED <<bookings, nextId, rooms, last, reqs>>
    ELSE \E userId \in session :
           LET status == updateBookingOutcome(bookings, userId, roomId.value,
                                              bookingId.value) IN
           /\ http' = Exchange("PUT", session, roomId, bookingId,
                               "policy", status, httpStatus(status))
           /\ IF status = "OK"
                THEN bookings' = bookingRepository_updateBooking(bookings, bookingId.value,
                                                                 roomId.value)
                ELSE UNCHANGED bookings
           /\ UNCHANGED <<nextId, rooms, last, reqs>>

NextHttp == http_getBooking \/ http_postBooking \/ http_putBooking

SpecHttp == Init /\ [][NextHttp]_vars

\* =================================================================== claims
\* vocabulary of the claims, stated on the recorded call and the tables

\* the number of bookings of table bs that reference roomId
Occupancy(bs, roomId) == Cardinality({b \in bs : b.roomId = roomId})

\* the bookings of table bs that userId holds
HeldBy(bs, userId) == {b \in bs : b.userId = userId}

\* the call's user has an enrollment with a paid, non-remote, hotel ticket
Eligible(call) ==
  /\ call.enrollment # {}
  /\ call.ticket # {}
  /\ \A t \in call.ticket : t.status = "PAID" /\ ~t.isRemote /\ t.includesHotel

\* the call's roomId references a room of the Room table
TargetExists(call) == call.roomId \in RoomIds

\* the call's target room had a free slot when the call started
TargetHasFreeSlot(call) ==
  Occupancy(call.pre, call.roomId) < rooms[call.roomId].capacity

\* C1: after any sequence of postBooking and updateBooking calls from the
\* empty table, no room has more bookings than its capacity.
C1_RoomWithinCapacity ==
  \A r \in RoomIds : Occupancy(bookings, r) <= rooms[r].capacity

\* C1 witness: an update has just filled a room of capacity 2 to its capacity.
C1_Witness ==
  /\ last.op = "updateBooking" /\ last.status = "OK"
  /\ rooms[last.roomId].capacity = 2
  /\ Occupancy(bookings, last.roomId) = 2
  /\ Occupancy(last.pre, last.roomId) = 1

\* C2: after any sequence of postBooking and updateBooking calls from the
\* empty table, every user holds at most one booking.
C2_OneBookingPerUser ==
  \A u \in Users : Cardinality(HeldBy(bookings, u)) <= 1

\* C2 witness: an eligible user who holds a booking has just been refused a
\* second one in an existing room with a free slot.
C2_Witness ==
  /\ last.op = "postBooking" /\ last.status = "Forbidden"
  /\ Eligible(last) /\ TargetExists(last) /\ TargetHasFreeSlot(last)
  /\ Cardinality(HeldBy(bookings, last.userId)) = 1
  /\ bookings = last.pre

\* C3: postBooking reports the error of the first violated precondition in
\* the order enrollment, ticket, room existence, existing booking, capacity.
C3_CreateCheckOrder ==
  last.op = "postBooking" =>
    last.status =
      IF last.enrollment = {} THEN "Forbidden"
      ELSE IF ~Eligible(last) THEN "Forbidden"
      ELSE IF ~TargetExists(last) THEN "NotFound"
      ELSE IF HeldBy(last.pre, last.userId) # {} THEN "Forbidden"
      ELSE IF ~TargetHasFreeSlot(last) THEN "Forbidden"
      ELSE "OK"

\* C3 witness: an eligible user who holds a booking targets a room that does
\* not exist and gets NotFound.
C3_Witness ==
  /\ last.op = "postBooking" /\ last.status = "NotFound"
  /\ Eligible(last) /\ ~TargetExists(last)
  /\ HeldBy(last.pre, last.userId) # {}

\* C4: postBooking fails with Forbidden whenever there is no enrollment, no
\* ticket, a ticket that is not paid, a remote ticket type or a ticket type
\* without hotel, whatever the target room and its occupancy.
C4_IneligibleForbidden ==
  (/\ last.op = "postBooking"
   /\ \/ last.enrollment = {}
      \/ last.ticket = {}
      \/ \E t \in last.ticket : t.status # "PAID" \/ t.isRemote \/ ~t.includesHotel)
    => last.status = "Forbidden"

\* C4 witness: a paid ticket with hotel whose type is remote is refused for an
\* existing room with a free slot, by a user who has no booking.
C4_Witness ==
  /\ last.op = "postBooking" /\ last.status = "Forbidden"
  /\ last.enrollment # {}
  /\ \E t \in last.ticket : t.status = "PAID" /\ t.isRemote /\ t.includesHotel
  /\ TargetExists(last) /\ TargetHasFreeSlot(last)
  /\ HeldBy(last.pre, last.userId) = {}

\* C5: for an eligible user, postBooking fails with NotFound whenever roomId
\* references no room, whether or not the user holds a booking.
C5_MissingRoomNotFound ==
  (last.op = "postBooking" /\ Eligible(last) /\ ~TargetExists(last))
    => last.status = "NotFound"

\* C5 witness: an eligible user without a booking targets a room that does not
\* exist, while another user holds a booking.
C5_Witness ==
  /\ last.op = "postBooking" /\ last.status = "NotFound"
  /\ Eligible(last) /\ ~TargetExists(last)
  /\ HeldBy(last.pre, last.userId) = {}
  /\ last.pre # {}

\* C6: for an eligible user and an existing room, postBooking fails with
\* Forbidden whenever the user already holds a booking, however many free
\* slots the room has.
C6_DuplicateForbidden ==
  (/\ last.op = "postBooking" /\ Eligible(last) /\ TargetExists(last)
   /\ HeldBy(last.pre, last.userId) # {})
    => last.status = "Forbidden"

\* C6 witness: the user holds a booking in another room and the target room is
\* empty.
C6_Witness ==
  /\ last.op = "postBooking" /\ last.status = "Forbidden"
  /\ Eligible(last) /\ TargetExists(last)
  /\ HeldBy(last.pre, last.userId) # {}
  /\ Occupancy(last.pre, last.roomId) = 0

\* C7: for an eligible user with no booking and an existing room, postBooking
\* succeeds exactly when the room's bookings are fewer than its capacity, and
\* fails with Forbidden otherwise.
C7_CapacityDecides ==
  (/\ last.op = "postBooking" /\ Eligible(last) /\ TargetExists(last)
   /\ HeldBy(last.pre, last.userId) = {})
    => /\ last.status = "OK" <=> TargetHasFreeSlot(last)
       /\ ~TargetHasFreeSlot(last) => last.status = "Forbidden"

\* C7 witness: the room's bookings equal its capacity and the call is refused.
C7_Witness ==
  /\ last.op = "postBooking" /\ last.status = "Forbidden"
  /\ Eligible(last) /\ TargetExists(last)
  /\ HeldBy(last.pre, last.userId) = {}
  /\ Occupancy(last.pre, last.roomId) = rooms[last.roomId].capacity

\* C8: a getBooking(userId) that directly follows a successful
\* postBooking(userId, roomId) succeeds with the id postBooking returned and
\* exactly the room roomId.
C8_RetrieveAfterCreate ==
  (last.op = "getBooking" /\ \E c \in last.justCreated : c.userId = last.userId)
    => \A c \in last.justCreated :
         /\ last.status = "OK"
         /\ last.id = c.id
         /\ last.Room = {rooms[c.roomId]}
         /\ \A room \in last.Room : room.id = c.roomId

\* C8 witness: such a getBooking, while another user holds a booking too.
C8_Witness ==
  /\ last.op = "getBooking" /\ last.status = "OK"
  /\ \E c \in last.justCreated : c.userId = last.userId /\ c.id = last.id
  /\ \E b \in bookings : b.userId # last.userId

\* C9: a successful postBooking adds exactly one record (userId, roomId) with
\* a fresh id, so the table grows by one, and leaves every other record as it
\* was.
C9_CreateAddsOne ==
  [][(last'.op = "postBooking" /\ last'.status = "OK")
       => /\ bookings' = bookings \cup
               {[id |-> last'.id, userId |-> last'.userId, roomId |-> last'.roomId]}
          /\ last'.id \notin {b.id : b \in bookings}
          /\ Cardinality(bookings') = Cardinality(bookings) + 1
          /\ bookings \subseteq bookings']_vars

\* C9 witness: a successful postBooking into a table that held a booking.
C9_Witness ==
  /\ last.op = "postBooking" /\ last.status = "OK"
  /\ last.pre # {}
  /\ Cardinality(bookings) = Cardinality(last.pre) + 1

\* C10: updateBooking reports the error of the first violated precondition in
\* the order booking existence, ownership, room existence, room capacity.
C10_UpdateCheckOrder ==
  last.op = "updateBooking" =>
    last.status =
      IF ~\E b \in last.pre : b.id = last.bookingId THEN "NotFound"
      ELSE IF \E b \in last.pre : b.id = last.bookingId /\ b.userId # last.userId
        THEN "Forbidden"
      ELSE IF ~TargetExists(last) THEN "NotFound"
      ELSE IF ~TargetHasFreeSlot(last) THEN "Forbidden"
      ELSE "OK"

\* C10 witness: the booking belongs to another user and the target room does
\* not exist: Forbidden.
C10_Witness ==
  /\ last.op = "updateBooking" /\ last.status = "Forbidden"
  /\ \E b \in last.pre : b.id = last.bookingId /\ b.userId # last.userId
  /\ ~TargetExists(last)

\* the caller of the call owned the booking bookingId when the call started
CallerOwnsBooking(call) ==
  \E b \in call.pre : b.id = call.bookingId /\ b.userId = call.userId

\* C11: a successful updateBooking returns bookingId and changes only the
\* roomId of that booking, to the target room: no booking is added or removed,
\* no id or userId changes, and every other booking keeps its room.
C11_UpdateChangesOnlyRoom ==
  [][(last'.op = "updateBooking" /\ last'.status = "OK")
       => /\ last'.id = last'.bookingId
          /\ Cardinality(bookings') = Cardinality(bookings)
          /\ {b.id : b \in bookings'} = {b.id : b \in bookings}
          /\ \A b \in bookings : \E c \in bookings' :
               /\ c.id = b.id
               /\ c.userId = b.userId
               /\ c.roomId = IF b.id = last'.bookingId THEN last'.roomId ELSE b.roomId]_vars

\* C11 witness: a successful updateBooking moved a booking to another room
\* while another booking sat in the room it left.
C11_Witness ==
  /\ last.op = "updateBooking" /\ last.status = "OK"
  /\ \E b \in last.pre :
       /\ b.id = last.bookingId /\ b.roomId # last.roomId
       /\ \E o \in bookings : o.id # b.id /\ o.roomId = b.roomId

\* C12: for a caller who owns the booking and an existing target room with a
\* free slot, updateBooking succeeds whatever the enrollment and ticket
\* repositories hold for the caller.
C12_UpdateIgnoresTicket ==
  (/\ last.op = "updateBooking"
   /\ CallerOwnsBooking(last) /\ TargetExists(last) /\ TargetHasFreeSlot(last))
    => last.status = "OK"

\* C12 witness: a successful updateBooking by a caller without enrollment.
C12_Witness ==
  /\ last.op = "updateBooking" /\ last.status = "OK"
  /\ last.enrollment = {}

\* C13: getBooking fails with NotFound for a user with no booking, otherwise
\* returns the id and the room record of a booking of the user; either way the
\* tables are left as they were.
C13_RetrieveReadsOnly ==
  [][last'.op = "getBooking"
       => /\ HeldBy(bookings, last'.userId) = {} => last'.status = "NotFound"
          /\ HeldBy(bookings, last'.userId) # {} =>
               /\ last'.status = "OK"
               /\ \E b \in HeldBy(bookings, last'.userId) :
                    last'.id = b.id /\ last'.Room = {rooms[b.roomId]}
          /\ bookings' = bookings /\ nextId' = nextId /\ rooms' = rooms]_vars

\* C13 witness: a user without booking gets NotFound while another user holds
\* a booking.
C13_Witness ==
  /\ last.op = "getBooking" /\ last.status = "NotFound"
  /\ HeldBy(bookings, last.userId) = {}
  /\ bookings # {}

\* C16: updateBooking has no self-move exemption: when the caller's booking
\* already references the target room and the room's bookings, the caller's
\* included, equal its capacity, the call fails with Forbidden.
C16_NoSelfMoveExemption ==
  (/\ last.op = "updateBooking"
   /\ \E b \in last.pre :
        b.id = last.bookingId /\ b.userId = last.userId /\ b.roomId = last.roomId
   /\ Occupancy(last.pre, last.roomId) = rooms[last.roomId].capacity)
    => last.status = "Forbidden"

\* C16 witness: the caller shares a full room of capacity 2 with another user
\* and asks for that same room.
C16_Witness ==
  /\ last.op = "updateBooking" /\ last.status = "Forbidden"
  /\ \E b \in last.pre :
       b.id = last.bookingId /\ b.userId = last.userId /\ b.roomId = last.roomId
  /\ rooms[last.roomId].capacity = 2
  /\ Occupancy(last.pre, last.roomId) = 2

\* C18: a postBooking or updateBooking that fails leaves the Booking table and
\* its id sequence as they were, and one that succeeds writes one row.
C18_FailureWritesNothing ==
  [][last'.op \in {"postBooking", "updateBooking"}
       => /\ last'.status \in {"NotFound", "Forbidden"} =>
               bookings' = bookings /\ nextId' = nextId
          /\ last'.status = "OK" =>
               /\ Cardinality(bookings' \ bookings) <= 1
               /\ Cardinality(bookings \ bookings') <= 1]_vars

\* C18 witness: an updateBooking by the owner fails on a full target room and
\* the table is the one the call started from.
C18_Witness ==
  /\ last.op = "updateBooking" /\ last.status = "Forbidden"
  /\ CallerOwnsBooking(last) /\ TargetExists(last) /\ ~TargetHasFreeSlot(last)
  /\ bookings = last.pre

CreatedIn(q) ==
  reqs[q].pc = "done" /\ reqs[q].op = "postBooking" /\ reqs[q].status = "OK"

\* C14: with interleaved requests, a create reaches its write only through a
\* capacity check that passed on the table it read, and the write then adds
\* the booking whatever the room holds by then; so two creates can both pass
\* the check of a capacity-1 room and both write (the witness).
C14_CheckThenWrite ==
  [][\A q \in Slots : reqs[q].op = "postBooking" =>
       /\ (reqs[q].pc = "count" /\ reqs'[q].pc = "write") =>
            Occupancy(bookings, reqs[q].roomId) < rooms[reqs[q].roomId].capacity
       /\ (reqs[q].pc = "write" /\ reqs'[q].pc = "done") =>
            /\ reqs'[q].status = "OK"
            /\ Occupancy(bookings', reqs[q].roomId) = Occupancy(bookings, reqs[q].roomId) + 1]_vars

\* C14 witness: two creates by different users into an empty room of capacity
\* 1 have both succeeded and the room holds two bookings.
C14_Witness ==
  \E p, q \in Slots :
    /\ p # q /\ CreatedIn(p) /\ CreatedIn(q)
    /\ \E a, b \in bookings :
         /\ a.id = reqs[p].id /\ b.id = reqs[q].id
         /\ a.userId # b.userId
         /\ a.roomId = b.roomId
         /\ rooms[a.roomId].capacity = 1
         /\ bookings = {a, b}

\* C15: no step of any interleaving of getBooking, postBooking and
\* updateBooking removes a booking id from the table or changes the userId of
\* a booking.
C15_NeverDeletes ==
  [][\A b \in bookings : \E c \in bookings' : c.id = b.id /\ c.userId = b.userId]_vars

\* C15 witness: an update and a create have both completed, and the booking
\* that was in the table from the start is still there with its user.
C15_Witness ==
  \E p, q \in Slots :
    /\ CreatedIn(p)
    /\ reqs[q].pc = "done" /\ reqs[q].op = "updateBooking" /\ reqs[q].status = "OK"
    /\ reqs[q].id = 1
    /\ \E b \in bookings : b.id = 1
    /\ Cardinality(bookings) = 2

\* C20: with interleaved requests, the existing-booking check of a create
\* passes exactly when the user holds no booking in the table it reads, and
\* the write adds a booking of the user whatever the user holds by then; so
\* two creates of one user can both pass the check and both write (the
\* witness).
C20_DuplicateCheckThenWrite ==
  [][\A q \in Slots : reqs[q].op = "postBooking" =>
       /\ (reqs[q].pc = "existing" /\ reqs'[q].pc = "count") =>
            HeldBy(bookings, reqs[q].userId) = {}
       /\ (reqs[q].pc = "write" /\ reqs'[q].pc = "done") =>
            Cardinality(HeldBy(bookings', reqs[q].userId)) =
              Cardinality(HeldBy(bookings, reqs[q].userId)) + 1]_vars

\* C20 witness: two creates of the same user, into different rooms, have both
\* succeeded and the user holds two bookings.
C20_Witness ==
  \E p, q \in Slots :
    /\ p # q /\ CreatedIn(p) /\ CreatedIn(q)
    /\ \E a, b \in bookings :
         /\ a.id = reqs[p].id /\ b.id = reqs[q].id
         /\ a.userId = b.userId
         /\ a.roomId # b.roomId
         /\ HeldBy(bookings, a.userId) = {a, b}

\* a raw request value that is a positive integer
PositiveInteger(raw) == raw.kind = "integer" /\ raw.value >= 1

\* the exchange passed authentication and every validation of its route
PassedValidation(x) ==
  /\ x.session # {}
  /\ x.method \in {"POST", "PUT"} => PositiveInteger(x.roomId)
  /\ x.method = "PUT" => PositiveInteger(x.bookingId)

UpdatedIn(q) ==
  reqs[q].pc = "done" /\ reqs[q].op = "updateBooking" /\ reqs[q].status = "OK"

\* C21: with interleaved requests, an update reaches its write only through a
\* capacity check that passed on the table it read, and the write then moves
\* the booking into the target room whatever the room holds by then, as the
\* write of a create does; so an update and a create, or two updates, can both
\* pass the check for the last free slot of a room and both write.
C21_UpdateCheckThenWrite ==
  [][\A q \in Slots : reqs[q].op = "updateBooking" =>
       /\ (reqs[q].pc = "count" /\ reqs'[q].pc = "write") =>
            Occupancy(bookings, reqs[q].roomId) < rooms[reqs[q].roomId].capacity
       /\ (reqs[q].pc = "write" /\ reqs'[q].pc = "done") =>
            /\ reqs'[q].status = "OK"
            /\ \E b \in bookings' : b.id = reqs[q].bookingId /\ b.roomId = reqs[q].roomId
            /\ {b \in bookings' : b.id # reqs[q].bookingId}
                 = {b \in bookings : b.id # reqs[q].bookingId}]_vars

\* C21 witness: an update and a create by different users have both succeeded
\* into a room of capacity 1 that was empty, and the room holds two bookings.
C21_Witness ==
  \E p, q \in Slots :
    /\ UpdatedIn(p) /\ CreatedIn(q)
    /\ \E a, b \in bookings :
         /\ a.id = reqs[p].id /\ b.id = reqs[q].id
         /\ a.id # b.id /\ a.userId # b.userId
         /\ a.roomId = b.roomId
         /\ rooms[a.roomId].capacity = 1
         /\ bookings = {a, b}

\* C21, the other race: two updates of different bookings have both succeeded
\* into one room, which holds more bookings than its capacity.
C21_TwoUpdatesOverfill ==
  \E p, q \in Slots :
    /\ p # q /\ UpdatedIn(p) /\ UpdatedIn(q) /\ reqs[p].id # reqs[q].id
    /\ \E a, b \in bookings :
         /\ a.id = reqs[p].id /\ b.id = reqs[q].id
         /\ a.roomId = b.roomId
         /\ Occupancy(bookings, a.roomId) > rooms[a.roomId].capacity

\* how far a request has come: the awaits of a service function, in order
PcRank(pc) ==
  CASE pc = "idle" -> 0
    [] pc = "existing" -> 1
    [] pc = "count" -> 2
    [] pc = "write" -> 3
    [] pc = "done" -> 4

\* the request of slot q is between two awaits
InFlight(q) == reqs[q].pc \in {"existing", "count", "write"}

\* C22: under every interleaving in which the store's queries return, the
\* invocations of getBooking, postBooking and updateBooking all finish: from
\* some point on none is between two awaits; an invocation finishes with one
\* outcome among OK, NotFound and Forbidden, which then stays; each of its
\* steps takes it to a later await or to its end (no retry, no loop), so that
\* one that has started can only stop being in flight by finishing; and a
\* request in flight can always take its next step whatever the other
\* requests do (no waiting).
C22_EveryCallFinishes ==
  /\ <>[](\A q \in Slots : ~InFlight(q))
  /\ [](\A q \in Slots : InFlight(q) => ENABLED (Continue /\ reqs'[q] # reqs[q]))
  /\ [][\A q \in Slots : reqs'[q] # reqs[q] =>
          /\ PcRank(reqs'[q].pc) > PcRank(reqs[q].pc)
          /\ \A p \in Slots : p # q => reqs'[p] = reqs[p]
          /\ reqs'[q].pc = "done" =>
               /\ reqs'[q].op \in {"getBooking", "postBooking", "updateBooking"}
               /\ reqs'[q].status \in {"OK", "NotFound", "Forbidden"}]_vars

\* C22 witness: every request has finished, among them a create that
\* succeeded and an update that was refused.
C22_Witness ==
  /\ \A q \in Slots : reqs[q].pc = "done"
  /\ \E p, q \in Slots :
       /\ CreatedIn(p)
       /\ reqs[q].op = "updateBooking" /\ reqs[q].status = "Forbidden"

====
